---- MODULE Spec2Model ----
(***************************************************************************)
(* A model of the gocesiumtiler command line front end and of the point    *)
(* helpers it ships with:                                                  *)
(*   - geom.LinkedPointStream  (internal/geom/point.go)                    *)
(*   - geom.Point64.ToPointFromBaseline (internal/geom/point.go)           *)
(*   - las.MockLasReader       (the mock point source)                     *)
(*   - cmd/main.go             (validate, file/folder commands, launch)    *)
(*   - tiler.NewTilerOptions   (functional options)                        *)
(* Each component has its own specification over the shared variable list; *)
(* the variables of the other components stay at their idle values.        *)
(***************************************************************************)
EXTENDS Integers, Sequences, FiniteSets, TLC

VARIABLES
    \* ---- geom.LinkedPointStream and the linked list it walks
    heap,       \* the LinkedPoint nodes: heap[i] = [Next |-> node or Nil, Pt |-> Point32]
    root,       \* the root handed to NewLinkedPointStream
    lenArg,     \* the length handed to NewLinkedPointStream
    l,          \* the LinkedPointStream: [len, current, start]
    emitted,    \* points returned without error since construction or the last Reset
    calls,      \* Next calls since construction or the last Reset
    errs,       \* Next calls that returned an error since construction or the last Reset
    wasReset,   \* Reset has been called at least once
    ops,        \* operations performed on the stream so far
    last,       \* the last operation: [op, err, pt, pre] (pre = the stream before it)
    \* ---- las.MockLasReader
    held,       \* how many points the reader was built with
    Pts,        \* MockLasReader.Pts
    Cur,        \* MockLasReader.Cur
    delivered,  \* the points returned by successful GetNext calls, in call order
    rcalls,     \* GetNext calls made so far
    rlast,      \* the last GetNext: [err, pt, pre] (pre = Cur before the call)
    \* ---- two unsynchronised consumers of one MockLasReader
    cpc,        \* cpc[c]: the position of consumer c inside GetNext
    reg,        \* reg[c]: the value of m.Cur consumer c holds in a register
    idx,        \* idx[c]: the index consumer c is about to read Pts at
    got,        \* the successful GetNext calls: [who |-> consumer, at |-> index of Pts]
    overlapped, \* two GetNext calls have been in progress at the same time
    oob,        \* a read of Pts at an index outside 0..len(Pts)-1 has happened
    \* ---- geom.Point64.ToPointFromBaseline
    p,          \* the receiver, a Point64
    baseline,   \* the baseline, a Point64
    local,      \* the results returned so far (at most one Point32)
    \* ---- cmd/main.go: one run of the file or folder command
    opts,       \* the cliOpts the flags were parsed into
    command,    \* "file" or "folder"; "lib" when the tiler package is used directly
    path,       \* the command's first argument
    numCPU,     \* runtime.NumCPU() of the host
    optFns,     \* the option functions handed to NewTilerOptions
    tilerOpts,  \* the TilerOptions built so far (at most one)
    mainpc,     \* the main goroutine: "start", "wait" (in wg.Wait), "returned"
    runnable,   \* the job function handed to launch: "file" or "folder" ("none" before)
    exit,       \* the process: "running", "ok" (status 0), "fatal" (log.Fatal, status 1)
    ctx,        \* the context of launch: "none", "active", "cancelled"
    wg,         \* the WaitGroup counter of launch
    jobpc,      \* the goroutine of launch: "none", "ready", "tiler", "returned", "done"
    jobErr,     \* the error the job function returned ("nil" for none)
    fnCalls,    \* how many times the job function has been invoked
    lasFiles,   \* what utils.FindLasFilesInFolder returned (join mode)
    tilerCalls, \* the calls received by the tiler, in order
    tilerPhase, \* the state of the tiling job inside the tiler
    tilerChecked, \* the job has passed the cancellation check of its current phase
    tilerTasks, \* the tasks the job has run in its current phase
    interrupted \* where the tiling job was when the interrupt arrived: its phase,
                \* "idle" outside a tiler call, "never" without interrupt

vars_stream == <<heap, root, lenArg, l, emitted, calls, errs, wasReset, ops, last>>
vars_reader == <<held, Pts, Cur, delivered, rcalls, rlast>>
vars_race == <<cpc, reg, idx, got, overlapped, oob>>
vars_baseline == <<p, baseline, local>>
vars_cli == <<opts, command, path, numCPU, optFns, tilerOpts, mainpc, runnable, exit, ctx, wg,
              jobpc, jobErr, fnCalls, lasFiles, tilerCalls, tilerPhase, tilerChecked,
              tilerTasks, interrupted>>
vars == <<vars_stream, vars_reader, vars_race, vars_baseline, vars_cli>>

\* ------------------------------------------------------------------------
\* Bounds of the model
\* ------------------------------------------------------------------------
MaxNodes == 3
MaxOps == 12
MaxPts == 3
MaxReads == 6
MaxFns == 3
MaxTasks == 2

\* ------------------------------------------------------------------------
\* geom.Point32, geom.Point64
\* ------------------------------------------------------------------------

\* Coordinates are integer valued. A float64 holds every integer of magnitude
\* up to 2^53 exactly, so the model's coordinates (below 2^31) are float64
\* values and their float64 differences are exact.
TwoTo24 == 2^24

\* The unit in the last place of the float32 nearest to the magnitude a:
\* a float32 carries 24 significant bits.
RECURSIVE Ulp32(_)
Ulp32(a) == IF a < TwoTo24 THEN 1 ELSE 2 * Ulp32(a \div 2)

\* float32(v) of a float64 v: round to nearest, ties to even (Go conversion).
RoundMag32(a) ==
    LET u == Ulp32(a)
        q == a \div u
        r == a % u
    IN  IF 2 * r > u \/ (2 * r = u /\ q % 2 = 1) THEN (q + 1) * u ELSE q * u

Float32(v) == IF v < 0 THEN 0 - RoundMag32(0 - v) ELSE RoundMag32(v)

NewPoint32(X, Y, Z, R, G, B, Intensity, Classification) ==
    [X |-> X, Y |-> Y, Z |-> Z, R |-> R, G |-> G, B |-> B,
     Intensity |-> Intensity, Classification |-> Classification]

Point64(X, Y, Z, R, G, B, Intensity, Classification) ==
    [X |-> X, Y |-> Y, Z |-> Z, R |-> R, G |-> G, B |-> B,
     Intensity |-> Intensity, Classification |-> Classification]

\* Point32{} / Point64{}: the zero value returned next to an error
ZeroPoint == NewPoint32(0, 0, 0, 0, 0, 0, 0, 0)

ToPointFromBaselineDropsBaseline(pt, b) ==
    NewPoint32(Float32(pt.X), Float32(pt.Y), Float32(pt.Z),
               pt.R, pt.G, pt.B, pt.Intensity, pt.Classification)

ToPointFromBaseline(pt, b) ==
    NewPoint32(Float32(pt.X - b.X), Float32(pt.Y - b.Y), Float32(pt.Z - b.Z),
               pt.R, pt.G, pt.B, pt.Intensity, pt.Classification)

\* ------------------------------------------------------------------------
\* geom.LinkedPoint, geom.LinkedPointStream
\* ------------------------------------------------------------------------
Nil == 0

SamplePoints32 ==
    { NewPoint32(1, 2, 3, 10, 20, 30, 40, 50),
      NewPoint32(4, 5, 6, 11, 21, 31, 41, 51) }

\* The points of the list that starts at node n, in link order.
RECURSIVE PointsFrom(_, _)
PointsFrom(h, n) ==
    IF n = Nil THEN <<>> ELSE <<h[n].Pt>> \o PointsFrom(h, h[n].Next)

NewLinkedPointStream(r, len) == [len |-> len, current |-> r, start |-> r]

\* The three results of LinkedPointStream.Next: the point, the error, the stream after
NextPt(s, h) == IF s.current = Nil THEN ZeroPoint ELSE h[s.current].Pt
NextErr(s) == s.current = Nil

NextStreamSkips(s, h) ==
    IF s.current = Nil THEN s
    ELSE [s EXCEPT !.current =
              IF h[s.current].Next = Nil THEN Nil ELSE h[h[s.current].Next].Next]

NextStream(s, h) ==
    IF s.current = Nil THEN s ELSE [s EXCEPT !.current = h[s.current].Next]

ResetStreamKeepsCurrent(s) == s

ResetStream(s) == [s EXCEPT !.current = s.start]

StreamIdle ==
    /\ heap = <<>> /\ root = Nil /\ lenArg = 0 /\ l = NewLinkedPointStream(Nil, 0)
    /\ emitted = <<>> /\ calls = 0 /\ errs = 0 /\ wasReset = FALSE /\ ops = 0
    /\ last = [op |-> "New", err |-> FALSE, pt |-> ZeroPoint,
               pre |-> NewLinkedPointStream(Nil, 0)]

\* A heap of n chained nodes, a root anywhere in it (or nil), and a stream
\* built over it with a length that the constructor does not cross-check.
InitStream ==
    /\ \E n \in 0..MaxNodes :
         \E pts \in [1..n -> SamplePoints32] :
            heap = [i \in 1..n |->
                      [Next |-> IF i < n THEN i + 1 ELSE Nil, Pt |-> pts[i]]]
    /\ root \in 0..Len(heap)
    /\ lenArg \in 0..MaxNodes
    /\ l = NewLinkedPointStream(root, lenArg)
    /\ emitted = <<>> /\ calls = 0 /\ errs = 0 /\ wasReset = FALSE /\ ops = 0
    /\ last = [op |-> "New", err |-> FALSE, pt |-> ZeroPoint, pre |-> l]

StreamNext ==
    /\ ops < MaxOps
    /\ l' = NextStream(l, heap)
    /\ last' = [op |-> "Next", err |-> NextErr(l), pt |-> NextPt(l, heap), pre |-> l]
    /\ emitted' = IF NextErr(l) THEN emitted ELSE Append(emitted, NextPt(l, heap))
    /\ errs' = IF NextErr(l) THEN errs + 1 ELSE errs
    /\ calls' = calls + 1
    /\ ops' = ops + 1
    /\ UNCHANGED <<heap, root, lenArg, wasReset>>
    /\ UNCHANGED <<vars_reader, vars_race, vars_baseline, vars_cli>>

StreamReset ==
    /\ ops < MaxOps
    /\ l' = ResetStream(l)
    /\ last' = [op |-> "Reset", err |-> FALSE, pt |-> ZeroPoint, pre |-> l]
    /\ emitted' = <<>> /\ calls' = 0 /\ errs' = 0
    /\ wasReset' = TRUE
    /\ ops' = ops + 1
    /\ UNCHANGED <<heap, root, lenArg>>
    /\ UNCHANGED <<vars_reader, vars_race, vars_baseline, vars_cli>>

StreamLenCountsRemaining == Len(PointsFrom(heap, l.current))

StreamLen == l.len

\* ------------------------------------------------------------------------
\* las.MockLasReader, one consumer
\* ------------------------------------------------------------------------
SamplePoints64 ==
    { Point64(100, 200, 300, 1, 2, 3, 4, 5),
      Point64(101, 201, 301, 6, 7, 8, 9, 10),
      Point64(102, 202, 302, 11, 12, 13, 14, 15) }

ReaderIdle ==
    /\ held = 0 /\ Pts = <<>> /\ Cur = 0 /\ delivered = <<>> /\ rcalls = 0
    /\ rlast = [err |-> FALSE, panic |-> FALSE, pt |-> ZeroPoint, pre |-> 0]

RaceIdle ==
    /\ cpc = <<>> /\ reg = <<>> /\ idx = <<>> /\ got = <<>>
    /\ overlapped = FALSE /\ oob = FALSE

BaselineIdle ==
    /\ p = ZeroPoint /\ baseline = ZeroPoint /\ local = <<>>

\* Go slices are indexed from 0, TLA+ sequences from 1: m.Pts[i] is Pts[i + 1].
PtsAt(i) == Pts[i + 1]

NumberOfPoints == Len(Pts)

GetNextAvailableOffByOne(cur) == cur <= Len(Pts)

GetNextAvailable(cur) == cur < Len(Pts)

InitReader ==
    /\ \E n \in 0..MaxPts : Pts \in [1..n -> SamplePoints64]
    /\ held = Len(Pts)
    /\ Cur = 0 /\ delivered = <<>> /\ rcalls = 0
    /\ rlast = [err |-> FALSE, panic |-> FALSE, pt |-> ZeroPoint, pre |-> 0]

InRange(i) == i \in 0..(Len(Pts) - 1)

\* GetNext as one consumer runs it: check, increment, read m.Pts[m.Cur-1].
\* An index outside the slice panics (Go bounds check) after the increment.
GetNext ==
    /\ rcalls < MaxReads
    /\ ~rlast.panic
    /\ rcalls' = rcalls + 1
    /\ IF GetNextAvailable(Cur)
       THEN /\ Cur' = Cur + 1
            /\ IF InRange(Cur' - 1)
               THEN /\ delivered' = Append(delivered, PtsAt(Cur' - 1))
                    /\ rlast' = [err |-> FALSE, panic |-> FALSE,
                                 pt |-> PtsAt(Cur' - 1), pre |-> Cur]
               ELSE /\ delivered' = delivered
                    /\ rlast' = [err |-> FALSE, panic |-> TRUE,
                                 pt |-> ZeroPoint, pre |-> Cur]
       ELSE /\ Cur' = Cur
            /\ delivered' = delivered
            /\ rlast' = [err |-> TRUE, panic |-> FALSE, pt |-> ZeroPoint, pre |-> Cur]
    /\ UNCHANGED <<held, Pts>>
    /\ UNCHANGED <<vars_stream, vars_race, vars_baseline, vars_cli>>

\* ------------------------------------------------------------------------
\* las.MockLasReader, two consumers and no lock
\* ------------------------------------------------------------------------
\* GetNext is not atomic: `m.Cur < len(m.Pts)` reads m.Cur, `m.Cur++` reads
\* and writes it, `m.Pts[m.Cur-1]` reads it again and then reads the slice.
\* The accesses of two goroutines are a data race: they interleave freely,
\* and the compiler may keep m.Cur in a register between two of its reads, so
\* each later read yields either the memory value or the register's.
Consumers == {1, 2}

\* The interleavings do not depend on the values of the points, only on how
\* many there are: the i-th point is told apart by its coordinates.
InitRace ==
    /\ \E n \in 0..MaxPts :
          Pts = [i \in 1..n |-> Point64(100 + i, 200 + i, 300 + i, 1, 2, 3, 4, 5)]
    /\ held = Len(Pts)
    /\ Cur = 0 /\ rcalls = 0
    /\ delivered = <<>>
    /\ rlast = [err |-> FALSE, panic |-> FALSE, pt |-> ZeroPoint, pre |-> 0]
    /\ cpc = [c \in Consumers |-> "idle"]
    /\ reg = [c \in Consumers |-> 0]
    /\ idx = [c \in Consumers |-> 0]
    /\ got = <<>>
    /\ overlapped = FALSE
    /\ oob = FALSE

Crashed == \E c \in Consumers : cpc[c] = "panic"

\* a consumer enters GetNext
RaceCall(c) ==
    /\ ~Crashed
    /\ cpc[c] = "idle"
    /\ rcalls < MaxReads
    /\ rcalls' = rcalls + 1
    /\ cpc' = [cpc EXCEPT ![c] = "check"]
    /\ overlapped' = (overlapped \/ \E d \in Consumers \ {c} : cpc[d] # "idle")
    /\ UNCHANGED <<held, Pts, Cur, delivered, rlast, reg, idx, got, oob>>
    /\ UNCHANGED <<vars_stream, vars_baseline, vars_cli>>

\* if m.Cur < len(m.Pts); otherwise return the error
RaceCheck(c) ==
    /\ ~Crashed
    /\ cpc[c] = "check"
    /\ reg' = [reg EXCEPT ![c] = Cur]
    /\ cpc' = [cpc EXCEPT ![c] = IF GetNextAvailable(Cur) THEN "load" ELSE "idle"]
    /\ UNCHANGED <<held, Pts, Cur, delivered, rcalls, rlast, idx, got, overlapped, oob>>
    /\ UNCHANGED <<vars_stream, vars_baseline, vars_cli>>

\* m.Cur++, the read
RaceLoad(c) ==
    /\ ~Crashed
    /\ cpc[c] = "load"
    /\ \E v \in {Cur, reg[c]} : reg' = [reg EXCEPT ![c] = v]
    /\ cpc' = [cpc EXCEPT ![c] = "store"]
    /\ UNCHANGED <<held, Pts, Cur, delivered, rcalls, rlast, idx, got, overlapped, oob>>
    /\ UNCHANGED <<vars_stream, vars_baseline, vars_cli>>

\* m.Cur++, the write
RaceStore(c) ==
    /\ ~Crashed
    /\ cpc[c] = "store"
    /\ Cur' = reg[c] + 1
    /\ reg' = [reg EXCEPT ![c] = reg[c] + 1]
    /\ cpc' = [cpc EXCEPT ![c] = "index"]
    /\ UNCHANGED <<held, Pts, delivered, rcalls, rlast, idx, got, overlapped, oob>>
    /\ UNCHANGED <<vars_stream, vars_baseline, vars_cli>>

RaceIndexNoMinusOne(c) ==
    /\ ~Crashed
    /\ cpc[c] = "index"
    /\ \E v \in {Cur, reg[c]} : idx' = [idx EXCEPT ![c] = v]
    /\ cpc' = [cpc EXCEPT ![c] = "read"]
    /\ UNCHANGED <<held, Pts, Cur, delivered, rcalls, rlast, reg, got, overlapped, oob>>
    /\ UNCHANGED <<vars_stream, vars_baseline, vars_cli>>

\* m.Cur-1
RaceIndex(c) ==
    /\ ~Crashed
    /\ cpc[c] = "index"
    /\ \E v \in {Cur, reg[c]} : idx' = [idx EXCEPT ![c] = v - 1]
    /\ cpc' = [cpc EXCEPT ![c] = "read"]
    /\ UNCHANGED <<held, Pts, Cur, delivered, rcalls, rlast, reg, got, overlapped, oob>>
    /\ UNCHANGED <<vars_stream, vars_baseline, vars_cli>>

\* return m.Pts[...], nil: the bounds check panics outside the slice
RaceRead(c) ==
    /\ ~Crashed
    /\ cpc[c] = "read"
    /\ IF InRange(idx[c])
       THEN /\ got' = Append(got, [who |-> c, at |-> idx[c]])
            /\ cpc' = [cpc EXCEPT ![c] = "idle"]
            /\ oob' = oob
       ELSE /\ got' = got
            /\ cpc' = [cpc EXCEPT ![c] = "panic"]
            /\ oob' = TRUE
    /\ UNCHANGED <<held, Pts, Cur, delivered, rcalls, rlast, reg, idx, overlapped>>
    /\ UNCHANGED <<vars_stream, vars_baseline, vars_cli>>

\* ------------------------------------------------------------------------
\* geom.Point64.ToPointFromBaseline applied to sample points
\* ------------------------------------------------------------------------
\* 2^24 + 1 and 2^24 + 3 are float64 values that no float32 holds.
SampleCoords == {0 - 5, 0, 2^24 + 1, 2^24 + 3}
SampleBytes == {0, 255}

InitBaseline ==
    /\ \E x, y, z \in SampleCoords, c \in SampleBytes :
          p = Point64(x, y, z, c, 255 - c, c, 255 - c, c)
    /\ \E x, y, z \in SampleCoords, c \in SampleBytes :
          baseline = Point64(x, y, z, c, c, 255 - c, 255 - c, c)
    /\ local = <<>>

Convert ==
    /\ local = <<>>
    /\ local' = <<ToPointFromBaseline(p, baseline)>>
    /\ UNCHANGED <<p, baseline>>
    /\ UNCHANGED <<vars_stream, vars_reader, vars_race, vars_cli>>


\* ------------------------------------------------------------------------
\* float64 values of the command line (resolution, z-offset, grid size)
\* ------------------------------------------------------------------------
\* A float64 flag is parsed with strconv.ParseFloat, which also accepts "NaN".
\* Finite values are counted in tenths of a meter; NaN is a value of its own,
\* and every ordered comparison with NaN is false (IEEE 754, Go's < and >).
F(t) == [nan |-> FALSE, tenths |-> t]
NaN == [nan |-> TRUE, tenths |-> 0]
FLess(a, b) == ~a.nan /\ ~b.nan /\ a.tenths < b.tenths
FGreater(a, b) == ~a.nan /\ ~b.nan /\ a.tenths > b.tenths
FLessEq(a, b) == ~a.nan /\ ~b.nan /\ a.tenths <= b.tenths

\* ------------------------------------------------------------------------
\* package tiler: TilerOptions and its option functions
\* ------------------------------------------------------------------------
NewDefaultTilerOptions ==
    [gridSize |-> F(200), maxDepth |-> 10, elevationOffset |-> F(0),
     numWorkers |-> numCPU, minPointsPerTile |-> 5000,
     eightBitColors |-> FALSE, geoidElevation |-> FALSE, callback |-> "nil"]

\* An option function is the assignment it performs: the field and the value.
WithGridSize(size) == [field |-> "gridSize", value |-> size]
WithMaxDepth(maxDepth) == [field |-> "maxDepth", value |-> maxDepth]
WithElevationOffset(offset) == [field |-> "elevationOffset", value |-> offset]
WithWorkerNumber(numWorkers) == [field |-> "numWorkers", value |-> numWorkers]
WithMinPointsPerTile(minPointsPerTile) ==
    [field |-> "minPointsPerTile", value |-> minPointsPerTile]
WithCallback(callback) == [field |-> "callback", value |-> callback]
WithEightBitColors(eightBit) == [field |-> "eightBitColors", value |-> eightBit]
WithGeoidElevation(geoid) == [field |-> "geoidElevation", value |-> geoid]

\* fn(opts)
ApplyOption(fn, o) == [o EXCEPT ![fn.field] = fn.value]

\* for _, fn := range optFn { fn(opts) }
RECURSIVE ApplyAll(_, _)
ApplyAll(fns, o) ==
    IF fns = <<>> THEN o ELSE ApplyAll(Tail(fns), ApplyOption(Head(fns), o))

RECURSIVE ApplyAllReversed(_, _)
ApplyAllReversed(fns, o) ==
    IF fns = <<>> THEN o
    ELSE ApplyOption(Head(fns), ApplyAllReversed(Tail(fns), o))

NewTilerOptionsReversed(optFn) == ApplyAllReversed(optFn, NewDefaultTilerOptions)

NewTilerOptions(optFn) == ApplyAll(optFn, NewDefaultTilerOptions)

\* ------------------------------------------------------------------------
\* cmd/main.go
\* ------------------------------------------------------------------------
defaultCliOptions ==
    [output |-> "", epsg |-> 0 - 1, maxDepth |-> 10, minPoints |-> 5000,
     resolution |-> F(200), zOffset |-> F(0), geoid |-> FALSE,
     eightBit |-> FALSE, join |-> FALSE]

\* validate: the message of the log.Fatal it ends in, or "ok" when it returns
validate(c) ==
    IF c.output = "" THEN "output flag must be set"
    ELSE IF c.epsg <= 0 THEN "epsg code is invalid"
    ELSE IF c.maxDepth <= 1 \/ c.maxDepth > 20 THEN "depth should be between 1 and 20"
    ELSE IF c.minPoints < 1 THEN "min-points-per-tile should be at least 1"
    ELSE IF FLess(c.resolution, F(5)) \/ FGreater(c.resolution, F(10000))
         THEN "resolution should be between 1 and 1000 meters"
    ELSE "ok"

\* the arguments of tiler.NewTilerOptions in getTilerOptions
getTilerOptions(c) ==
    << WithEightBitColors(c.eightBit), WithGeoidElevation(c.geoid),
       WithElevationOffset(c.zOffset), WithGridSize(c.resolution),
       WithMaxDepth(c.maxDepth), WithMinPointsPerTile(c.minPoints),
       WithCallback("eventListener") >>

\* ---- what a command line can set
SampleOutputs == {"", ".\\abc"}
SampleEpsg == {0 - 1, 0, 1}
SampleDepths == {1, 2, 20, 21}
SampleMinPoints == {0, 1}
SampleResolutions == {F(4), F(5), F(10000), F(10001), NaN}
SampleOffsets == {F(0), F(0 - 10)}
SampleFileLists == { <<>>, <<"test0.las", "test1.LAS">> }
SampleCPUs == {1, 8}

SampleCliOpts ==
    { [output |-> o, epsg |-> e, maxDepth |-> d, minPoints |-> m, resolution |-> r,
       zOffset |-> z, geoid |-> g, eightBit |-> b, join |-> j] :
        o \in SampleOutputs, e \in SampleEpsg, d \in SampleDepths,
        m \in SampleMinPoints, r \in SampleResolutions, z \in SampleOffsets,
        g \in BOOLEAN, b \in BOOLEAN, j \in BOOLEAN }

SampleOptFns ==
    { WithGridSize(F(5)), WithGridSize(F(111)), WithMaxDepth(13), WithMaxDepth(2),
      WithElevationOffset(F(0 - 10)), WithWorkerNumber(1), WithMinPointsPerTile(1200),
      WithCallback("eventListener"), WithEightBitColors(TRUE), WithGeoidElevation(TRUE) }

SeqsUpTo(S, n) == UNION { [1..k -> S] : k \in 0..n }

CliRest ==
    /\ optFns = <<>> /\ tilerOpts = <<>> /\ runnable = "none"
    /\ exit = "running" /\ ctx = "none" /\ wg = 0
    /\ jobpc = "none" /\ jobErr = "nil" /\ fnCalls = 0 /\ lasFiles = <<>>
    /\ tilerCalls = <<>> /\ tilerPhase = "none" /\ tilerChecked = FALSE
    /\ tilerTasks = 0 /\ interrupted = "never"

CliIdle ==
    /\ opts = defaultCliOptions /\ command = "none" /\ path = "" /\ numCPU = 1
    /\ mainpc = "none"
    /\ CliRest

\* main() has parsed the flags of a file or folder command into opts.
\* The join flag exists for the folder command only.
InitCli ==
    /\ command \in {"file", "folder"}
    /\ path = (IF command = "file" THEN "myfile.las" ELSE "myfolder")
    /\ opts \in SampleCliOpts
    /\ command = "file" => opts.join = defaultCliOptions.join
    /\ numCPU \in SampleCPUs
    /\ mainpc = "start"
    /\ CliRest

\* A program that uses package tiler directly is about to call NewTilerOptions.
InitLib ==
    /\ command = "lib" /\ path = "" /\ opts = defaultCliOptions
    /\ numCPU \in SampleCPUs
    /\ mainpc = "lib"
    /\ optFns \in SeqsUpTo(SampleOptFns, MaxFns)
    /\ tilerOpts = <<>> /\ runnable = "none"
    /\ exit = "running" /\ ctx = "none" /\ wg = 0
    /\ jobpc = "none" /\ jobErr = "nil" /\ fnCalls = 0 /\ lasFiles = <<>>
    /\ tilerCalls = <<>> /\ tilerPhase = "none" /\ tilerChecked = FALSE
    /\ tilerTasks = 0 /\ interrupted = "never"

others_cli == <<vars_stream, vars_reader, vars_race, vars_baseline>>

callNewTilerOptions ==
    /\ mainpc = "lib" /\ tilerOpts = <<>>
    /\ tilerOpts' = <<NewTilerOptions(optFns)>>
    /\ UNCHANGED <<opts, command, path, numCPU, optFns, mainpc, runnable, exit, ctx, wg,
                   jobpc, jobErr, fnCalls, lasFiles, tilerCalls, tilerPhase,
                   tilerChecked, tilerTasks, interrupted>>
    /\ UNCHANGED others_cli

\* log.Fatal: the process exits with status 1, no deferred call runs
Fatal ==
    /\ exit' = "fatal"
    /\ UNCHANGED <<opts, command, path, numCPU, optFns, tilerOpts, mainpc, runnable,
                   ctx, wg, jobpc, jobErr, fnCalls, lasFiles, tilerCalls, tilerPhase,
                   tilerChecked, tilerTasks, interrupted>>

\* launch, up to wg.Wait: signal.NotifyContext, wg.Add(1), the go statement
launch(function) ==
    /\ runnable' = function
    /\ ctx' = "active"
    /\ wg' = wg + 1
    /\ jobpc' = "ready"
    /\ mainpc' = "wait"

\* The body shared by fileCommand and folderCommand: tilerProvider (which may
\* fail), opts.getTilerOptions (validate, then NewTilerOptions), launch.
runCommand(function) ==
    \E providerFails \in BOOLEAN :
        IF providerFails \/ validate(opts) # "ok"
        THEN Fatal
        ELSE /\ optFns' = getTilerOptions(opts)
             /\ tilerOpts' = <<NewTilerOptions(optFns')>>
             /\ launch(function)
             /\ UNCHANGED <<opts, command, path, numCPU, exit, jobErr, fnCalls,
                            lasFiles, tilerCalls, tilerPhase, tilerChecked, tilerTasks, interrupted>>

fileCommand ==
    /\ exit = "running" /\ mainpc = "start" /\ command = "file"
    /\ runCommand("file")
    /\ UNCHANGED others_cli

folderCommand ==
    /\ exit = "running" /\ mainpc = "start" /\ command = "folder"
    /\ runCommand("folder")
    /\ UNCHANGED others_cli

\* ---- the job function (the runnable closures) and the tiler behind it
ProcessFiles(files) ==
    [method |-> "ProcessFiles", files |-> files, folder |-> "",
     output |-> opts.output, epsg |-> opts.epsg, opts |-> tilerOpts[1], ctx |-> "ctx"]

ProcessFolder(folder) ==
    [method |-> "ProcessFolder", files |-> <<>>, folder |-> folder,
     output |-> opts.output, epsg |-> opts.epsg, opts |-> tilerOpts[1], ctx |-> "ctx"]

\* the tiler call of the runnable of fileCommand
fileRunnable == ProcessFiles(<<path>>)

\* the tiler call of the runnable of folderCommand, given the files found
folderRunnableNeverJoins(found) == ProcessFolder(path)

folderRunnable(found) ==
    IF opts.join THEN ProcessFiles(found) ELSE ProcessFolder(path)

\* the tiler receives a call and starts the tiling job
tilerEnter(call) ==
    /\ tilerCalls' = Append(tilerCalls, call)
    /\ tilerPhase' = "ReadingHeader"
    /\ tilerChecked' = FALSE
    /\ tilerTasks' = 0
    /\ jobpc' = "tiler"
    /\ jobErr' = jobErr

\* go func() { ...; err := function(ctx): the goroutine invokes the job function.
\* In join mode utils.FindLasFilesInFolder either fails, and the function
\* returns its error, or yields the files handed to ProcessFiles.
jobRun ==
    /\ exit = "running" /\ jobpc = "ready"
    /\ fnCalls' = fnCalls + 1
    /\ IF runnable = "file"
       THEN /\ tilerEnter(fileRunnable)
            /\ lasFiles' = lasFiles
       ELSE IF opts.join
       THEN \E findFails \in BOOLEAN :
               IF findFails
               THEN /\ jobErr' = "FindLasFilesInFolder"
                    /\ jobpc' = "returned"
                    /\ UNCHANGED <<lasFiles, tilerCalls, tilerPhase, tilerChecked, tilerTasks>>
               ELSE \E found \in SampleFileLists :
                       /\ lasFiles' = found
                       /\ tilerEnter(folderRunnable(found))
       ELSE /\ tilerEnter(folderRunnable(<<>>))
            /\ lasFiles' = lasFiles
    /\ UNCHANGED <<opts, command, path, numCPU, optFns, tilerOpts, mainpc, runnable,
                   exit, ctx, wg, interrupted>>
    /\ UNCHANGED others_cli

\* The tiling job: ReadingHeader -> LoadingPoints -> Building -> Exporting -> Done,
\* with Error reachable from every phase. Building and Exporting run a bounded
\* number of tasks. Cancellation is observed at the start of the job, at the
\* start of each later phase and between the tasks of a phase; a job that
\* observes it launches nothing more and returns the cancellation as its error.
NextPhase(ph) ==
    CASE ph = "ReadingHeader" -> "LoadingPoints"
      [] ph = "LoadingPoints" -> "Building"
      [] ph = "Building" -> "Exporting"
      [] ph = "Exporting" -> "Done"

PhaseError(ph) ==
    CASE ph = "ReadingHeader" -> "ReadError"
      [] ph = "LoadingPoints" -> "ReadError"
      [] ph = "Building" -> "ProjectionError"
      [] ph = "Exporting" -> "ExportError"

HasTasks(ph) == ph \in {"Building", "Exporting"}

tilerObserve ==
    /\ exit = "running" /\ jobpc = "tiler" /\ ~tilerChecked
    /\ IF ctx = "cancelled"
       THEN /\ tilerPhase' = "Error"
            /\ jobErr' = "CancelledError"
            /\ jobpc' = "returned"
            /\ tilerChecked' = FALSE
       ELSE /\ tilerChecked' = TRUE
            /\ UNCHANGED <<tilerPhase, jobErr, jobpc>>
    /\ UNCHANGED <<opts, command, path, numCPU, optFns, tilerOpts, mainpc, runnable,
                   exit, ctx, wg, fnCalls, lasFiles, tilerCalls, tilerTasks,
                   interrupted>>
    /\ UNCHANGED others_cli

tilerWork ==
    /\ exit = "running" /\ jobpc = "tiler" /\ tilerChecked
    /\ tilerChecked' = FALSE
    /\ \E outcome \in {"fails", "more", "next"} :
          CASE outcome = "fails" ->
                 /\ tilerPhase' = "Error"
                 /\ jobErr' = PhaseError(tilerPhase)
                 /\ jobpc' = "returned"
                 /\ tilerTasks' = tilerTasks
            [] outcome = "more" ->
                 /\ HasTasks(tilerPhase) /\ tilerTasks + 1 < MaxTasks
                 /\ tilerTasks' = tilerTasks + 1
                 /\ UNCHANGED <<tilerPhase, jobErr, jobpc>>
            [] outcome = "next" ->
                 /\ tilerPhase' = NextPhase(tilerPhase)
                 /\ tilerTasks' = 0
                 /\ jobErr' = "nil"
                 /\ jobpc' = IF tilerPhase' = "Done" THEN "returned" ELSE "tiler"
    /\ UNCHANGED <<opts, command, path, numCPU, optFns, tilerOpts, mainpc, runnable,
                   exit, ctx, wg, fnCalls, lasFiles, tilerCalls, interrupted>>
    /\ UNCHANGED others_cli

\* if err != nil { log.Fatal(err) }, then the deferred wg.Done()
jobEndIgnoresError ==
    /\ exit = "running" /\ jobpc = "returned"
    /\ wg' = wg - 1 /\ jobpc' = "done"
    /\ UNCHANGED <<opts, command, path, numCPU, optFns, tilerOpts, mainpc, runnable,
                   exit, ctx, jobErr, fnCalls, lasFiles, tilerCalls, tilerPhase,
                   tilerChecked, tilerTasks, interrupted>>
    /\ UNCHANGED others_cli

jobEnd ==
    /\ exit = "running" /\ jobpc = "returned"
    /\ IF jobErr # "nil"
       THEN Fatal
       ELSE /\ wg' = wg - 1 /\ jobpc' = "done"
            /\ UNCHANGED <<opts, command, path, numCPU, optFns, tilerOpts, mainpc,
                           runnable, exit, ctx, jobErr, fnCalls, lasFiles, tilerCalls,
                           tilerPhase, tilerChecked, tilerTasks, interrupted>>
    /\ UNCHANGED others_cli

\* wg.Wait() returns once the counter is zero; launch, the command and main
\* return, and the process exits with status 0.
WaitDone == wg = 0

launchReturn ==
    /\ exit = "running" /\ mainpc = "wait"
    /\ WaitDone
    /\ mainpc' = "returned"
    /\ exit' = "ok"
    /\ UNCHANGED <<opts, command, path, numCPU, optFns, tilerOpts, runnable, ctx, wg,
                   jobpc, jobErr, fnCalls, lasFiles, tilerCalls, tilerPhase,
                   tilerChecked, tilerTasks, interrupted>>
    /\ UNCHANGED others_cli

\* os.Interrupt reaches the process: the context of signal.NotifyContext is
\* cancelled. Later interrupts find it cancelled already (stop is never called).
interruptLeavesContext ==
    /\ exit = "running" /\ ctx = "active" /\ interrupted = "never"
    /\ ctx' = ctx
    /\ interrupted' = (IF jobpc = "tiler" THEN tilerPhase ELSE "idle")
    /\ UNCHANGED <<opts, command, path, numCPU, optFns, tilerOpts, mainpc, runnable,
                   exit, wg, jobpc, jobErr, fnCalls, lasFiles, tilerCalls, tilerPhase,
                   tilerChecked, tilerTasks>>
    /\ UNCHANGED others_cli

interrupt ==
    /\ exit = "running" /\ ctx = "active"
    /\ ctx' = "cancelled"
    /\ interrupted' = (IF jobpc = "tiler" THEN tilerPhase ELSE "idle")
    /\ UNCHANGED <<opts, command, path, numCPU, optFns, tilerOpts, mainpc, runnable,
                   exit, wg, jobpc, jobErr, fnCalls, lasFiles, tilerCalls, tilerPhase,
                   tilerChecked, tilerTasks>>
    /\ UNCHANGED others_cli

\* ------------------------------------------------------------------------
\* Specifications
\* ------------------------------------------------------------------------
InitStreamSpec == InitStream /\ ReaderIdle /\ RaceIdle /\ BaselineIdle /\ CliIdle
NextStreamSpec == StreamNext \/ StreamReset
SpecStream == InitStreamSpec /\ [][NextStreamSpec]_vars

InitReaderSpec == InitReader /\ StreamIdle /\ RaceIdle /\ BaselineIdle /\ CliIdle
NextReaderSpec == GetNext
SpecReader == InitReaderSpec /\ [][NextReaderSpec]_vars

InitRaceSpec == InitRace /\ StreamIdle /\ BaselineIdle /\ CliIdle
NextRaceSpec ==
    \E c \in Consumers :
        \/ RaceCall(c)
        \/ RaceCheck(c)
        \/ RaceLoad(c)
        \/ RaceStore(c)
        \/ RaceIndex(c)
        \/ RaceRead(c)
SpecRace == InitRaceSpec /\ [][NextRaceSpec]_vars

InitBaselineSpec == InitBaseline /\ StreamIdle /\ ReaderIdle /\ RaceIdle /\ CliIdle
NextBaselineSpec == Convert
SpecBaseline == InitBaselineSpec /\ [][NextBaselineSpec]_vars

Init == (InitCli \/ InitLib) /\ StreamIdle /\ ReaderIdle /\ RaceIdle /\ BaselineIdle
Next ==
    \/ fileCommand
    \/ folderCommand
    \/ jobRun
    \/ tilerObserve
    \/ tilerWork
    \/ jobEnd
    \/ launchReturn
    \/ interrupt
    \/ callNewTilerOptions
Spec == Init /\ [][Next]_vars

\* The steps of the program itself: everything but the arrival of a signal.
\* The Go scheduler runs every runnable goroutine, and the tiling job is a
\* finite sequence of tasks, so an enabled program step is eventually taken.
Steps ==
    \/ fileCommand
    \/ folderCommand
    \/ jobRun
    \/ tilerObserve
    \/ tilerWork
    \/ jobEnd
    \/ launchReturn
    \/ callNewTilerOptions
SpecFair == Spec /\ WF_vars(Steps)

\* ------------------------------------------------------------------------
\* Properties
\* ------------------------------------------------------------------------
IsPrefix(a, b) == Len(a) <= Len(b) /\ a = SubSeq(b, 1, Len(a))

\* what a stream freshly built over root yields: the points in link order
FreshPoints == PointsFrom(heap, root)

\* C1: LinkedPointStream is restartable. After a Reset, whatever number of
\* Next calls came before it (also calls after exhaustion), the points yielded
\* since the Reset followed by the points still to come are exactly the
\* sequence a fresh stream over the same root yields, and an error is
\* returned only once that whole sequence has been yielded.
C1_Restartable ==
    wasReset =>
        /\ emitted \o PointsFrom(heap, l.current) = FreshPoints
        /\ (errs > 0 => emitted = FreshPoints)
        /\ (last.op = "Reset" => l.current = root)

\* a Reset after an exhausted pass, then a second full pass up to its error
C1_Witness ==
    /\ wasReset /\ errs >= 1 /\ Len(emitted) >= 2
    /\ ops >= 2 * calls + 1

\* C2: LinkedPointStream is finite and ordered. On a list of n points the
\* first n Next calls after construction or Reset return the points in link
\* order without error, the (n+1)-th returns an error, and so does every
\* further call, which leaves the stream (current, start, len) unchanged.
C2_FiniteOrdered ==
    LET n == Len(FreshPoints) IN
    /\ calls <= n => errs = 0 /\ emitted = SubSeq(FreshPoints, 1, calls)
    /\ calls > n => /\ errs = calls - n
                    /\ emitted = FreshPoints
                    /\ last.op = "Next" /\ last.err
    /\ (last.op = "Next" /\ last.err) => l = last.pre /\ last.pt = ZeroPoint
    /\ (last.op = "Next" /\ ~last.err) => last.pt = FreshPoints[calls]

\* two errors in a row at the end of a list of at least two points
C2_Witness ==
    /\ Len(FreshPoints) >= 2
    /\ calls >= Len(FreshPoints) + 2
    /\ last.op = "Next" /\ last.err

\* C3: the pull contract of the point source with one consumer.
\* NumberOfPoints is the number of points the reader holds, whatever was
\* consumed; the i-th successful GetNext returns Pts[i-1]; after n successes
\* every GetNext returns an error and leaves Cur alone; 0 <= Cur <= n.
C3_PullContract ==
    LET n == held IN
    /\ NumberOfPoints = n
    /\ 0 <= Cur /\ Cur <= n
    /\ ~rlast.panic
    /\ Len(delivered) = Cur
    /\ \A i \in 1..Len(delivered) : delivered[i] = PtsAt(i - 1)
    /\ rcalls <= n => Len(delivered) = rcalls
    /\ rcalls > n => Len(delivered) = n /\ rlast.err /\ Cur = rlast.pre
    /\ rlast.err => rlast.pre = n

\* a reader of at least two points drained, then asked twice more
C3_Witness ==
    /\ held >= 2 /\ Len(delivered) = held
    /\ rcalls >= held + 2 /\ rlast.err

\* C4 as claimed: the local point is the componentwise difference, exactly.
Abs(v) == IF v < 0 THEN 0 - v ELSE v

SameAttributes(a, b) ==
    /\ a.R = b.R /\ a.G = b.G /\ a.B = b.B
    /\ a.Intensity = b.Intensity /\ a.Classification = b.Classification

C4_ExactDifference ==
    local # <<>> =>
        /\ local[1].X = p.X - baseline.X
        /\ local[1].Y = p.Y - baseline.Y
        /\ local[1].Z = p.Z - baseline.Z
        /\ SameAttributes(local[1], p)

\* v is a float32 value: it has at most 24 significant bits
IsFloat32(v) == Abs(v) % Ulp32(Abs(v)) = 0

\* x is a float32 nearest to d, and is d itself when d is a float32
NearestFloat32(x, d) ==
    /\ IsFloat32(x)
    /\ 2 * Abs(x - d) <= Ulp32(Abs(d))
    /\ (IsFloat32(d) => x = d)
    /\ (Abs(d) <= 2^24 => x = d)

\* C4: ToPointFromBaseline yields, in each of X, Y, Z, the difference
\* p - baseline rounded to the nearest single precision value (the difference
\* itself whenever single precision holds it, as for every integer up to
\* 2^24), and R, G, B, Intensity, Classification of p, never the baseline's.
C4_RoundedDifference ==
    local # <<>> =>
        /\ NearestFloat32(local[1].X, p.X - baseline.X)
        /\ NearestFloat32(local[1].Y, p.Y - baseline.Y)
        /\ NearestFloat32(local[1].Z, p.Z - baseline.Z)
        /\ SameAttributes(local[1], p)

\* a difference single precision cannot hold, next to one it can, for a
\* baseline whose colour differs from the point's
C4_Witness ==
    /\ local # <<>>
    /\ local[1].X # p.X - baseline.X
    /\ local[1].Y = p.Y - baseline.Y /\ baseline.Y # 0
    /\ baseline.R # p.R /\ baseline.Intensity # p.Intensity

\* ---- two consumers
Quiescent == \A c \in Consumers : cpc[c] = "idle"

NoPointTwice == \A i, j \in 1..Len(got) : i # j => got[i].at # got[j].at

NoPointSkipped ==
    Quiescent => \A k \in 0..(Cur - 1) : InRange(k) => \E i \in 1..Len(got) : got[i].at = k

RaceGuarantees ==
    /\ NoPointTwice
    /\ NoPointSkipped
    /\ Cur <= Len(Pts)
    /\ ~oob

\* C10 as claimed: with two unsynchronised consumers no point is delivered
\* twice, none is skipped, Cur never exceeds len(Pts), no read is out of range.
C10_RaceFree == RaceGuarantees

\* C10: those guarantees hold for two consumers as long as no two GetNext
\* calls have been in progress at the same time.
C10_SerialCallsSafe == ~overlapped => RaceGuarantees

\* both consumers have taken points in turn, the reader is drained and has
\* answered a further call, and no two calls ever overlapped
C10_Witness ==
    /\ ~overlapped /\ Quiescent
    /\ Len(Pts) >= 2 /\ Len(got) = Len(Pts) /\ rcalls > Len(Pts)
    /\ \E i, j \in 1..Len(got) : got[i].who # got[j].who

\* ---- the command line
InRanges(c) ==
    /\ c.output # ""
    /\ c.epsg > 0
    /\ 2 <= c.maxDepth /\ c.maxDepth <= 20
    /\ c.minPoints >= 1
    /\ FLessEq(F(5), c.resolution) /\ FLessEq(c.resolution, F(10000))

IsCommandRun == command \in {"file", "folder"}

\* C5 as claimed: validation gates the engine. The tiler is called only with
\* options inside the ranges (output set, epsg > 0, 2 <= maxDepth <= 20,
\* minPoints >= 1, 0.5 <= resolution <= 1000); options inside them pass
\* validate; options outside them end the run fatally before any tiler call.
C5_ValidationGates ==
    IsCommandRun =>
        /\ tilerCalls # <<>> => InRanges(opts)
        /\ InRanges(opts) => validate(opts) = "ok"
        /\ (~InRanges(opts) /\ mainpc # "start") => exit = "fatal" /\ tilerCalls = <<>>

\* C6: dispatch by mode. The tiler is called at most once, and exactly once in
\* a run whose job function reached it: by the file command ProcessFiles with
\* [path]; by the folder command without join ProcessFolder with the folder;
\* by the folder command with join ProcessFiles with the files found there.
C6_Dispatch ==
    IsCommandRun =>
        /\ Len(tilerCalls) <= 1
        /\ (fnCalls = 1 /\ jobErr # "FindLasFilesInFolder") => Len(tilerCalls) = 1
        /\ exit = "ok" => Len(tilerCalls) = 1
        /\ \A i \in 1..Len(tilerCalls) :
              LET call == tilerCalls[i] IN
              /\ command = "file" =>
                    call.method = "ProcessFiles" /\ call.files = <<path>>
              /\ (command = "folder" /\ ~opts.join) =>
                    call.method = "ProcessFolder" /\ call.folder = path
              /\ (command = "folder" /\ opts.join) =>
                    call.method = "ProcessFiles" /\ call.files = lasFiles

\* a folder run in join mode that handed two discovered files to the tiler
C6_Witness ==
    /\ command = "folder" /\ opts.join /\ exit = "ok"
    /\ Len(tilerCalls) = 1 /\ Len(tilerCalls[1].files) = 2

\* the value the last function of fns that sets field f gives it, else dflt
RECURSIVE LastValue(_, _, _)
LastValue(fns, f, dflt) ==
    IF fns = <<>> THEN dflt
    ELSE IF fns[Len(fns)].field = f THEN fns[Len(fns)].value
    ELSE LastValue(SubSeq(fns, 1, Len(fns) - 1), f, dflt)

DocumentedDefaults ==
    [gridSize |-> F(200), maxDepth |-> 10, elevationOffset |-> F(0),
     minPointsPerTile |-> 5000, numWorkers |-> numCPU,
     eightBitColors |-> FALSE, geoidElevation |-> FALSE, callback |-> "nil"]

\* C7: options reach the engine unchanged. Every tiler call carries the output
\* folder, EPSG code, grid size, max depth, min points per tile, elevation
\* offset, geoid flag and eight-bit flag of the command line; and every
\* TilerOptions built by NewTilerOptions holds, field by field, the value of
\* the last option function that sets the field, or the default (grid size 20,
\* max depth 10, offset 0, 5000 points, host CPU count, flags off, no callback).
C7_OptionsUnchanged ==
    /\ \A i \in 1..Len(tilerCalls) :
          LET call == tilerCalls[i] IN
          /\ call.output = opts.output
          /\ call.epsg = opts.epsg
          /\ call.opts.gridSize = opts.resolution
          /\ call.opts.maxDepth = opts.maxDepth
          /\ call.opts.minPointsPerTile = opts.minPoints
          /\ call.opts.elevationOffset = opts.zOffset
          /\ call.opts.geoidElevation = opts.geoid
          /\ call.opts.eightBitColors = opts.eightBit
          /\ call.opts.numWorkers = numCPU
    /\ \A i \in 1..Len(tilerOpts) :
          /\ DOMAIN tilerOpts[i] = DOMAIN DocumentedDefaults
          /\ \A f \in DOMAIN DocumentedDefaults :
                tilerOpts[i][f] = LastValue(optFns, f, DocumentedDefaults[f])

\* a valid command line none of whose options is the default reached the tiler
C7_Witness ==
    /\ tilerCalls # <<>>
    /\ opts.geoid /\ opts.eightBit
    /\ opts.zOffset # defaultCliOptions.zOffset
    /\ opts.resolution = F(5) /\ opts.maxDepth = 20 /\ opts.minPoints = 1

\* C8: failure is the process outcome. The job function runs at most once and
\* exactly once before launch returns; launch returns only after the job
\* function returned nil; once the job function has returned an error the
\* process can only end in failure; a failure to list the folder's files
\* means the tiler was never called.
C8_FailureSurfaced ==
    /\ fnCalls <= 1
    /\ mainpc = "returned" =>
          fnCalls = 1 /\ jobpc = "done" /\ jobErr = "nil" /\ exit = "ok"
    /\ exit = "ok" => mainpc = "returned"
    /\ jobErr # "nil" =>
          \/ exit = "fatal"
          \/ exit = "running" /\ mainpc = "wait" /\ wg > 0 /\ jobpc = "returned"
    /\ jobErr = "FindLasFilesInFolder" => tilerCalls = <<>>
    /\ (exit = "fatal" /\ fnCalls = 1) => jobErr # "nil"

\* a join run whose folder could not be listed ended in failure
C8_Witness ==
    /\ exit = "fatal" /\ jobErr = "FindLasFilesInFolder" /\ fnCalls = 1

InJob(at) == at \in {"ReadingHeader", "LoadingPoints", "Building", "Exporting"}

\* C9 as claimed: a run interrupted while its job is in progress is never
\* reported as a success.
C9_NeverSuccess == InJob(interrupted) => exit # "ok"

\* C9: an interrupt that arrives while a job is in progress cancels the
\* context handed to the tiler, for good; the run terminates; and the run is
\* not reported as a success when the job observes the cancellation, which it
\* does whenever the interrupt arrives before the Exporting phase.
C9_CancelSurfaced ==
    /\ [](interrupted # "never" => ctx = "cancelled")
    /\ [](jobErr = "CancelledError" => exit # "ok")
    /\ [](interrupted \in {"ReadingHeader", "LoadingPoints", "Building"} => exit # "ok")
    /\ (InJob(interrupted) ~> exit # "running")

\* a run interrupted while building ended in failure with the cancellation
C9_Witness ==
    /\ interrupted = "Building" /\ ctx = "cancelled"
    /\ jobErr = "CancelledError" /\ exit = "fatal"

\* C11: Len of a LinkedPointStream is the length given to
\* NewLinkedPointStream, whatever Next and Reset calls were made (it does not
\* count the points left); and when that length is the number of nodes of
\* the list, the successful Next calls between construction or a Reset and
\* the first error number exactly Len().
C11_LenIsGiven ==
    /\ StreamLen = lenArg
    /\ (last.op # "New" => StreamLen = last.pre.len)
    /\ (lenArg = Len(FreshPoints) /\ errs > 0) => Len(emitted) = StreamLen
    /\ (lenArg = Len(FreshPoints) /\ errs = 0) => calls <= StreamLen

\* a stream whose length matches its list of at least two nodes, past a
\* Reset and drained again up to the error, with no point left to yield
C11_Witness ==
    /\ lenArg = Len(FreshPoints) /\ lenArg >= 2
    /\ wasReset /\ errs >= 1 /\ l.current = Nil
    /\ Len(emitted) = StreamLen

====
